---------------------------- MODULE Spec2Model ----------------------------
(***************************************************************************)
(* Model of the ShiViz layout coordinator (js/visualization/global.js) and *)
(* of the graph builder's host (js/graphBuilderHost.js).                   *)
(***************************************************************************)
EXTENDS Integers, Sequences, FiniteSets, TLC

(***************************************************************************)
(* JavaScript numbers.  Every number the layout code computes is an IEEE   *)
(* 754 double.  A finite double is kept exactly, as a sign and a magnitude *)
(* counted in units of 2^-60 and written in base-2^20 limbs, least         *)
(* significant first; each arithmetic operation computes the exact result  *)
(* and rounds it to 53 significant bits, ties to even.                     *)
(***************************************************************************)
LimbBits == 2 * 10
ChunkBits == LimbBits \div 2
LimbBase == 2 ^ LimbBits
NumLimbs == 2 + 2
FracLimbs == NumLimbs - 1
MantissaBits == 52 + 1

BigZero == [i \in 1..NumLimbs |-> 0]

Abs(n) == IF n < 0 THEN -n ELSE n

RECURSIVE MulCarry(_, _, _, _)
MulCarry(a, m, i, c) ==
    IF i > Len(a) THEN <<>>
    ELSE LET t == a[i] * m + c
         IN  <<t % LimbBase>> \o MulCarry(a, m, i + 1, t \div LimbBase)

BigMulSmall(a, m) == MulCarry(a, m, 1, 0)

RECURSIVE AddCarry(_, _, _, _)
AddCarry(a, b, i, c) ==
    IF i > Len(a) THEN <<>>
    ELSE LET t == a[i] + b[i] + c
         IN  <<t % LimbBase>> \o AddCarry(a, b, i + 1, t \div LimbBase)

BigAdd(a, b) == AddCarry(a, b, 1, 0)

RECURSIVE SubBorrow(_, _, _, _)
SubBorrow(a, b, i, c) ==
    IF i > Len(a) THEN <<>>
    ELSE LET t == a[i] - b[i] - c
         IN  IF t < 0 THEN <<t + LimbBase>> \o SubBorrow(a, b, i + 1, 1)
                      ELSE <<t>> \o SubBorrow(a, b, i + 1, 0)

\* a - b for a >= b
BigSub(a, b) == SubBorrow(a, b, 1, 0)

RECURSIVE CmpFrom(_, _, _)
CmpFrom(a, b, i) ==
    IF i = 0 THEN 0
    ELSE IF a[i] > b[i] THEN 1
    ELSE IF a[i] < b[i] THEN -1
    ELSE CmpFrom(a, b, i - 1)

BigCmp(a, b) == CmpFrom(a, b, Len(a))

RECURSIVE DivFrom(_, _, _, _)
DivFrom(a, d, i, r) ==
    IF i = 0 THEN [q |-> <<>>, r |-> r]
    ELSE LET cur  == r * LimbBase + a[i]
             rest == DivFrom(a, d, i - 1, cur % d)
         IN  [q |-> Append(rest.q, cur \div d), r |-> rest.r]

\* quotient and remainder of a by a small divisor d
BigDivSmall(a, d) == DivFrom(a, d, Len(a), 0)

RECURSIVE TopLimb(_, _)
TopLimb(a, i) == IF i = 0 THEN 0 ELSE IF a[i] # 0 THEN i ELSE TopLimb(a, i - 1)

RECURSIVE Bits(_)
Bits(x) == IF x = 0 THEN 0 ELSE 1 + Bits(x \div 2)

BigBitLen(a) ==
    LET t == TopLimb(a, Len(a))
    IN  IF t = 0 THEN 0 ELSE (t - 1) * LimbBits + Bits(a[t])

Min(x, y) == IF x < y THEN x ELSE y

\* a shifted right by s bits; sticky records whether a nonzero bit was dropped
RECURSIVE ShiftSticky(_, _, _)
ShiftSticky(a, s, sticky) ==
    IF s = 0 THEN [v |-> a, sticky |-> sticky]
    ELSE LET c  == Min(s, ChunkBits)
             dr == BigDivSmall(a, 2 ^ c)
         IN  ShiftSticky(dr.q, s - c, sticky \/ dr.r # 0)

RECURSIVE ShiftLeft(_, _)
ShiftLeft(a, s) ==
    IF s = 0 THEN a
    ELSE LET c == Min(s, ChunkBits) IN ShiftLeft(BigMulSmall(a, 2 ^ c), s - c)

BigOne == [i \in 1..NumLimbs |-> IF i = 1 THEN 1 ELSE 0]

\* The magnitude a (plus a dropped nonzero tail when sticky) rounded to 53
\* significant bits, to nearest, ties to even.
RoundMag(a, sticky) ==
    LET b == BigBitLen(a)
    IN  IF b <= MantissaBits THEN a
        ELSE LET s    == b - MantissaBits
                 st   == ShiftSticky(a, s - 1, sticky)
                 hq   == BigDivSmall(st.v, 2)
                 up   == hq.r = 1 /\ (st.sticky \/ hq.q[1] % 2 = 1)
                 q    == IF up THEN BigAdd(hq.q, BigOne) ELSE hq.q
             IN  ShiftLeft(q, s)

\* The integer n (0 <= n < 2^20) in units of 2^-60
BigOfInt(n) == [i \in 1..NumLimbs |-> IF i = FracLimbs + 1 THEN n ELSE 0]

Fin(neg, mag) == [k |-> "fin", neg |-> neg /\ mag # BigZero, mag |-> mag]
PosInf == [k |-> "inf", neg |-> FALSE, mag |-> BigZero]
NegInf == [k |-> "inf", neg |-> TRUE, mag |-> BigZero]
NaN == [k |-> "nan", neg |-> FALSE, mag |-> BigZero]

NumOfInt(n) == Fin(n < 0, BigOfInt(Abs(n)))

IsFinite(x) == x.k = "fin"
IsZero(x) == x.k = "fin" /\ x.mag = BigZero

\* JavaScript a / b for integer-valued a and b
NumDivInt(a, b) ==
    IF b = 0
    THEN IF a > 0 THEN PosInf ELSE IF a < 0 THEN NegInf ELSE NaN
    ELSE IF Abs(a) % Abs(b) = 0
         THEN Fin((a < 0) # (b < 0), BigOfInt(Abs(a) \div Abs(b)))
    ELSE LET dr == BigDivSmall(BigOfInt(Abs(a)), Abs(b))
         IN  Fin((a < 0) # (b < 0), RoundMag(dr.q, dr.r # 0))

\* Whether x is an integer, and that integer
IsInt(x) == x.k = "fin" /\ \A i \in 1..FracLimbs : x.mag[i] = 0
IntOf(x) == IF x.neg THEN -x.mag[NumLimbs] ELSE x.mag[NumLimbs]

\* exact sum of two finite numbers (no rounding)
ExactAdd(x, y) ==
    IF x.neg = y.neg THEN Fin(x.neg, BigAdd(x.mag, y.mag))
    ELSE IF BigCmp(x.mag, y.mag) >= 0 THEN Fin(x.neg, BigSub(x.mag, y.mag))
    ELSE Fin(y.neg, BigSub(y.mag, x.mag))

NumNeg(x) == IF x.k = "nan" THEN NaN ELSE [x EXCEPT !.neg = (~x.neg /\ ~IsZero(x))]

RoundNum(x) == Fin(x.neg, RoundMag(x.mag, FALSE))

\* JavaScript x + y
NumAdd(x, y) ==
    IF x.k = "nan" \/ y.k = "nan" THEN NaN
    ELSE IF x.k = "inf" /\ y.k = "inf" THEN (IF x.neg = y.neg THEN x ELSE NaN)
    ELSE IF x.k = "inf" THEN x
    ELSE IF y.k = "inf" THEN y
    ELSE IF IsInt(x) /\ IsInt(y) /\ Abs(IntOf(x) + IntOf(y)) < LimbBase
         THEN NumOfInt(IntOf(x) + IntOf(y))
    ELSE RoundNum(ExactAdd(x, y))

\* JavaScript x - y
NumSub(x, y) == NumAdd(x, NumNeg(y))

\* JavaScript n * x for an integer n
NumMulInt(n, x) ==
    IF x.k = "nan" THEN NaN
    ELSE IF x.k = "inf" THEN (IF n = 0 THEN NaN
                              ELSE IF (n < 0) # x.neg THEN NegInf ELSE PosInf)
    ELSE IF IsInt(x) /\ Abs(n * IntOf(x)) < LimbBase
         THEN NumOfInt(n * IntOf(x))
    ELSE RoundNum(Fin((n < 0) # x.neg, BigMulSmall(x.mag, Abs(n))))

\* JavaScript x < y
NumLt(x, y) ==
    IF x.k = "nan" \/ y.k = "nan" THEN FALSE
    ELSE IF x.k = "inf" THEN (x.neg /\ ~(y.k = "inf" /\ y.neg))
    ELSE IF y.k = "inf" THEN ~y.neg
    ELSE IF IsInt(x) /\ IsInt(y) THEN IntOf(x) < IntOf(y)
    ELSE IF x.neg # y.neg THEN x.neg
    ELSE IF x.neg THEN BigCmp(x.mag, y.mag) > 0
    ELSE BigCmp(x.mag, y.mag) < 0

(***************************************************************************)
(* Bounds of the model.                                                    *)
(***************************************************************************)
MaxHosts == 2
MaxViews == 2
MaxLayoutHosts == 4
MaxCalls == 10
MaxSideHosts == 17
MaxLive == 10
MaxRemovals == 2
MaxNodes == 4

Hosts == 1..MaxHosts
LayoutHosts == 1..MaxLayoutHosts
SideHosts == 1..MaxSideHosts
Null == 0

\* Available middle widths, $(window).width() - sidebarLeft - sidebarRight
WindowMiddles == {-40, 10, 25, 50, 177, 400}

VARIABLES
    instance,         \* Global.instance: Null or the id of a Global object
    nObjects,         \* number of Global objects successfully constructed
    returned,         \* ids that getInstance() has returned so far
    lastNew,          \* outcome of the most recent constructor call
    nCalls,           \* calls made to the constructor and to getInstance
    views,            \* this.views of the instance: sequence of views
    hostPermutation,  \* this.hostPermutation: null, or its hosts
    call,             \* what the most recent operation on the instance did
    sidebar,          \* the hidden-hosts section of the sidebar
    colors,           \* GraphBuilderHost.colors: the stack of unused colours
    liveHosts,        \* the graph builder's live hosts
    addDisabled,      \* whether the add-host button is disabled
    addBackground,    \* the colour the add-host button previews
    nRemoved,         \* hosts removed so far
    nodes,            \* this.nodes of one graph builder host
    nextNode,         \* the next node to be created on that host
    detached,         \* nodes whose circle was removed from the drawing
    nodeOp            \* what the most recent operation on that host did

singletonVars == <<instance, nObjects, returned, lastNew>>
coordVars == <<views, hostPermutation, call>>
globalVars == <<instance, nObjects, returned, lastNew, nCalls, views,
                hostPermutation, call, sidebar>>
builderVars == <<colors, liveHosts, addDisabled, addBackground, nRemoved>>
nodeVars == <<nodes, nextNode, detached, nodeOp>>
vars == <<globalVars, builderVars, nodeVars>>

(***************************************************************************)
(* Global: the singleton.                                                  *)
(***************************************************************************)
SIDE_BAR_WIDTH == 240
HOST_SQUARE_SIZE == 25
HIDDEN_EDGE_LENGTH == 40

\* this.hostPermutation = null
NullPermutation == [null |-> TRUE, hosts |-> {}]

\* a HostPermutation whose getHosts() returns the hosts 1..n
Permutation(n) == [null |-> FALSE, hosts |-> 1..n]

\* function Global(): throws when Global.instance is already set
GlobalThrows(inst) == inst # Null

NoCall ==
    [op |-> "none", threw |-> FALSE, avail |-> 0, middleWidth |-> 0,
     hostMargin |-> NaN, widthPerHost |-> NaN, widths |-> <<>>]

\* new Global(), called directly
NewGlobal ==
    /\ IF GlobalThrows(instance)
       THEN /\ lastNew' = "threw"
            /\ UNCHANGED nObjects
       ELSE /\ lastNew' = "ok"
            /\ nObjects' = nObjects + 1
    /\ UNCHANGED <<instance, returned, coordVars>>

\* Global.getInstance()
GetInstance ==
    /\ IF instance = Null
       THEN IF GlobalThrows(instance)
            THEN /\ lastNew' = "threw"
                 /\ UNCHANGED <<instance, nObjects, returned, coordVars>>
            ELSE /\ lastNew' = "ok"
                 /\ nObjects' = nObjects + 1
                 /\ instance' = nObjects + 1
                 /\ returned' = returned \cup {nObjects + 1}
                 /\ views' = <<>>
                 /\ hostPermutation' = NullPermutation
                 /\ call' = NoCall
       ELSE /\ returned' = returned \cup {instance}
            /\ UNCHANGED <<instance, nObjects, lastNew, coordVars>>

(***************************************************************************)
(* Global: hidden hosts.                                                   *)
(***************************************************************************)
Range(s) == {s[i] : i \in 1..Len(s)}

RECURSIVE SetToSeq(_)
SetToSeq(S) ==
    IF S = {} THEN <<>>
    ELSE LET m == CHOOSE x \in S : \A y \in S : x <= y
         IN  <<m>> \o SetToSeq(S \ {m})

\* ObjectSet as an array push: a host hidden by two views is kept twice
ObjectPush(obj, host) == Append(obj, host)

\* hiddenHosts[host] = true on an object kept as its keys in insertion order
ObjectSet(obj, host) == IF host \in Range(obj) THEN obj ELSE Append(obj, host)

RECURSIVE ForEachHost(_, _)
ForEachHost(obj, hs) ==
    IF hs = <<>> THEN obj ELSE ForEachHost(ObjectSet(obj, Head(hs)), Tail(hs))

RECURSIVE ForEachView(_, _)
ForEachView(obj, vs) ==
    IF vs = <<>> THEN obj
    ELSE ForEachView(ForEachHost(obj, SetToSeq(Head(vs).hidden)), Tail(vs))

\* Global.prototype.getHiddenHosts: the keys of the returned object
getHiddenHosts(vs) == ForEachView(<<>>, vs)

(***************************************************************************)
(* Global: resize.                                                         *)
(***************************************************************************)
\* hostMargin < HOST_SQUARE_SIZE
ClampFires(hostMargin) == NumLt(hostMargin, NumOfInt(HOST_SQUARE_SIZE))

\* widthPerHost after the visibleHosts == 1 special case
WidthPerHost(visibleHosts, middleWidth, hostMargin) ==
    IF visibleHosts = 1 THEN NumOfInt(middleWidth)
    ELSE NumAdd(NumOfInt(HOST_SQUARE_SIZE), hostMargin)

\* FinalHostMargin without the reset of hostMargin for a single host
FinalHostMarginKept(visibleHosts, hostMargin) == hostMargin

\* hostMargin after the visibleHosts == 1 special case
FinalHostMargin(visibleHosts, hostMargin) ==
    IF visibleHosts = 1 THEN NumOfInt(0) ELSE hostMargin

\* ViewWidth without the margin taken off the last host
ViewWidthNoMargin(view, hiddenHosts, widthPerHost, hostMargin) ==
    LET hosts == {h \in view.hosts : h \notin Range(hiddenHosts)}
    IN  NumMulInt(Cardinality(hosts), widthPerHost)

\* the width handed to view.setWidth
ViewWidth(view, hiddenHosts, widthPerHost, hostMargin) ==
    LET hosts == {h \in view.hosts : h \notin Range(hiddenHosts)}
    IN  NumSub(NumMulInt(Cardinality(hosts), widthPerHost), hostMargin)

\* Global.prototype.resize with the window leaving avail pixels in the middle
resize(op, vs, perm, avail) ==
    IF perm.null
    THEN [NoCall EXCEPT !.op = op, !.threw = TRUE, !.avail = avail]
    ELSE
    LET hiddenHosts  == getHiddenHosts(vs)
        numHidden    == Len(hiddenHosts)
        allHosts     == Cardinality(perm.hosts)
        visibleHosts == allHosts - numHidden
        divisor      == visibleHosts + Len(vs) - 2
        totalMargin0 == avail - visibleHosts * HOST_SQUARE_SIZE
        hostMargin0  == NumDivInt(totalMargin0, divisor)
        clamp        == ClampFires(hostMargin0)
        hostMargin1  == IF clamp THEN NumOfInt(HOST_SQUARE_SIZE) ELSE hostMargin0
        totalMargin  == IF clamp THEN HOST_SQUARE_SIZE * divisor ELSE totalMargin0
        middleWidth  == IF clamp THEN totalMargin + visibleHosts * HOST_SQUARE_SIZE
                                 ELSE avail
        widthPerHost == WidthPerHost(visibleHosts, middleWidth, hostMargin1)
        hostMargin   == FinalHostMargin(visibleHosts, hostMargin1)
    IN  [op |-> op, threw |-> FALSE, avail |-> avail,
         middleWidth |-> middleWidth, hostMargin |-> hostMargin,
         widthPerHost |-> widthPerHost,
         widths |-> [i \in 1..Len(vs) |->
                        ViewWidth(vs[i], hiddenHosts, widthPerHost, hostMargin)]]

\* The views handed to addView: each shows every host and hides some of them
Views == [hosts : {Hosts}, hidden : SUBSET Hosts]

\* Global.prototype.addView
AddView ==
    /\ instance # Null
    /\ Len(views) < MaxViews
    /\ \E view \in Views, avail \in WindowMiddles :
          /\ view.hidden \subseteq view.hosts
          /\ views' = Append(views, view)
          /\ call' = resize("addView", views', hostPermutation, avail)
    /\ UNCHANGED <<singletonVars, hostPermutation>>

\* Global.prototype.resize
Resize ==
    /\ instance # Null
    /\ \E avail \in WindowMiddles :
          call' = resize("resize", views, hostPermutation, avail)
    /\ UNCHANGED <<singletonVars, views, hostPermutation>>

\* Global.prototype.setHostPermutation
SetHostPermutation ==
    /\ instance # Null
    /\ \E n \in 0..MaxHosts : hostPermutation' = Permutation(n)
    /\ call' = NoCall
    /\ UNCHANGED <<singletonVars, views>>

\* Global.prototype.revert
Revert ==
    /\ instance # Null
    /\ views' = <<>>
    /\ hostPermutation' = NullPermutation
    /\ call' = [NoCall EXCEPT !.op = "revert"]
    /\ UNCHANGED singletonVars

\* A view's transformer hides or shows one of the view's hosts
ToggleHidden ==
    /\ instance # Null
    /\ \E i \in 1..Len(views), h \in Hosts :
          /\ h \in views[i].hosts
          /\ views' = [views EXCEPT ![i].hidden =
                          IF h \in @ THEN @ \ {h} ELSE @ \cup {h}]
    /\ call' = NoCall
    /\ UNCHANGED <<singletonVars, hostPermutation>>

(***************************************************************************)
(* Global: the hidden-hosts section of the sidebar.                        *)
(***************************************************************************)
\* No hidden-hosts section drawn yet
NoSideBar == [shown |-> FALSE, width |-> 0, height |-> 0, cells |-> <<>>]

\* Hidden-host squares per row of the section
hostsPerLine == (SIDE_BAR_WIDTH + 5) \div (HOST_SQUARE_SIZE + 5)

CeilDiv(a, b) == (a + b - 1) \div b

\* The row pass starts a new row when the running count reaches the row size
YWrapsEarly(count) == count >= hostsPerLine

\* The row pass starts a new row when the running count exceeds the row size
YWraps(count) == count > hostsPerLine

\* The "y" attribute of each square, in drawing order
RECURSIVE YPass(_, _, _)
YPass(n, count, y) ==
    IF n = 0 THEN <<>>
    ELSE LET c1 == count + 1
             wrap == YWraps(c1)
             y1 == IF wrap THEN y + HOST_SQUARE_SIZE + 5 ELSE y
             c2 == IF wrap THEN 1 ELSE c1
         IN  <<y1>> \o YPass(n - 1, c2, y1)

\* The "x" attribute of each square, in drawing order
RECURSIVE XPass(_, _)
XPass(n, x) ==
    IF n = 0 THEN <<>>
    ELSE LET x1 == x + HOST_SQUARE_SIZE + 5
             x2 == IF x1 + HOST_SQUARE_SIZE > SIDE_BAR_WIDTH THEN 0 ELSE x1
         IN  <<x2>> \o XPass(n - 1, x2)

\* drawSideBar: the section after the call, and whether the call threw
drawSideBar(vs, perm) ==
    LET hh == getHiddenHosts(vs)
        n  == Len(hh)
    IN  IF n = 0
        THEN [threw |-> FALSE, bar |-> NoSideBar]
        ELSE LET height == CeilDiv(n, hostsPerLine) * (HOST_SQUARE_SIZE + 5) - 5
                 ys == YPass(n, 0, 0)
                 xs == XPass(n, SIDE_BAR_WIDTH)
             IN  IF perm.null
                 THEN [threw |-> TRUE,
                       bar |-> [shown |-> TRUE, width |-> SIDE_BAR_WIDTH, height |-> height,
                                cells |-> [i \in 1..n |-> [host |-> hh[i], x |-> 0, y |-> 0]]]]
                 ELSE [threw |-> FALSE,
                       bar |-> [shown |-> TRUE, width |-> SIDE_BAR_WIDTH, height |-> height,
                                cells |-> [i \in 1..n |->
                                              [host |-> hh[i], x |-> xs[i], y |-> ys[i]]]]]

DrawSideBar ==
    /\ instance # Null
    /\ LET r == drawSideBar(views, hostPermutation)
       IN  /\ sidebar' = r.bar
           /\ call' = [NoCall EXCEPT !.op = "drawSideBar", !.threw = r.threw]
    /\ UNCHANGED <<singletonVars, nCalls, views, hostPermutation>>

(***************************************************************************)
(* GraphBuilderHost: the colour stack.                                     *)
(***************************************************************************)
PaletteSize == 9

NoColor == <<>>

\* HSVtoRGB for hue hn/hd, saturation sn/sd and value vn/vd
HSVtoRGB(hn, hd, sn, sd, vn, vd) ==
    LET sector == (6 * hn) \div hd
        fn  == (6 * hn) % hd
        den == vd * hd * sd
        p == vn * hd * (sd - sn)
        q == vn * (hd * sd - fn * sn)
        t == vn * (hd * sd - (hd - fn) * sn)
        v == vn * hd * sd
        Chan(num) == (num * 255) \div den
        m == sector % 6
        rgb == CASE m = 0 -> <<v, t, p>>
                 [] m = 1 -> <<q, v, p>>
                 [] m = 2 -> <<p, v, t>>
                 [] m = 3 -> <<p, q, v>>
                 [] m = 4 -> <<t, p, v>>
                 [] OTHER -> <<v, p, q>>
    IN  <<Chan(rgb[1]), Chan(rgb[2]), Chan(rgb[3])>>

\* The colour pushed in iteration i of the palette loop: HSVtoRGB(i / 9 + .4, .4, .8)
PaletteColor(i) == HSVtoRGB(5 * i + 18, 5 * PaletteSize, 2, 5, 4, 5)

\* The stack after the palette loop, bottom first
Palette == [k \in 1..PaletteSize |-> PaletteColor(PaletteSize + 1 - k)]

Top(stack) == stack[Len(stack)]

\* A pop that leaves the array as it was
PopNothing(stack) == stack

\* The array after colors.pop()
Pop(stack) == SubSeq(stack, 1, Len(stack) - 1)

\* The add button is disabled only once the stack is already empty
LastColorGone(stack) == Len(stack) = 0

\* The constructor disables the add button when it takes the last colour
LastColor(stack) == Len(stack) = 1

\* new GraphBuilderHost(graphBuilder, hostNum)
NewHost ==
    /\ Len(liveHosts) < MaxLive
    /\ LET hostNum == Len(liveHosts)
       IN  IF Len(colors) = 0
           THEN /\ liveHosts' = Append(liveHosts, [hostNum |-> hostNum, color |-> NoColor])
                /\ UNCHANGED <<colors, addDisabled, addBackground>>
           ELSE /\ addDisabled' = (addDisabled \/ LastColor(colors))
                /\ colors' = Pop(colors)
                /\ liveHosts' = Append(liveHosts, [hostNum |-> hostNum, color |-> Top(colors)])
                /\ addBackground' = IF Len(colors') = 0 THEN addBackground
                                                         ELSE Top(colors')
    /\ UNCHANGED nRemoved

\* Removing a host returns its colour to the stack and enables the add button
RemoveHost ==
    /\ nRemoved < MaxRemovals
    /\ nRemoved' = nRemoved + 1
    /\ \E i \in 1..Len(liveHosts) :
          /\ liveHosts' = SubSeq(liveHosts, 1, i - 1) \o SubSeq(liveHosts, i + 1, Len(liveHosts))
          /\ IF liveHosts[i].color = NoColor
             THEN UNCHANGED <<colors, addDisabled>>
             ELSE /\ colors' = Append(colors, liveHosts[i].color)
                  /\ addDisabled' = FALSE
    /\ UNCHANGED addBackground

InitBuilder ==
    /\ colors = Palette
    /\ liveHosts = <<>>
    /\ addDisabled = FALSE
    /\ addBackground = NoColor
    /\ nRemoved = 0

(***************************************************************************)
(* GraphBuilderHost: the nodes of one host.                                *)
(***************************************************************************)
\* The host object itself; nodes are numbered from 1
ThisHost == 0

NoNodeOp == [op |-> "none", arg |-> ThisHost, before |-> <<>>, torn |-> <<>>]

\* Array.remove(arr, x): arr without the first element equal to x
ArrayRemove(arr, x) ==
    IF \E i \in 1..Len(arr) : arr[i] = x
    THEN LET i == CHOOSE i \in 1..Len(arr) : arr[i] = x /\ \A j \in 1..(i - 1) : arr[j] # x
         IN  SubSeq(arr, 1, i - 1) \o SubSeq(arr, i + 1, Len(arr))
    ELSE arr

\* The element removeNode asks Array.remove to drop
RemovedElement(node) == ThisHost

\* this.nodes after removeNode(node)
removeNode(ns, node) == ArrayRemove(ns, RemovedElement(node))

\* The loop of removeAllNodes from index i: the nodes it tore down, in order
RECURSIVE removeAllLoop(_, _, _)
removeAllLoop(ns, i, torn) ==
    IF i > Len(ns) THEN torn
    ELSE removeAllLoop(removeNode(ns, ns[i]), i + 1, Append(torn, ns[i]))

AddNode ==
    /\ nextNode <= MaxNodes
    /\ nodes' = Append(nodes, nextNode)
    /\ nextNode' = nextNode + 1
    /\ nodeOp' = [NoNodeOp EXCEPT !.op = "addNode", !.arg = nextNode, !.before = nodes]
    /\ UNCHANGED detached

RemoveNode ==
    /\ \E node \in Range(nodes) :
          /\ nodes' = removeNode(nodes, node)
          /\ detached' = detached \cup {node}
          /\ nodeOp' = [op |-> "removeNode", arg |-> node, before |-> nodes,
                        torn |-> <<node>>]
    /\ UNCHANGED nextNode

RemoveAllNodes ==
    /\ LET torn == removeAllLoop(nodes, 1, <<>>)
       IN  /\ detached' = detached \cup Range(torn)
           /\ nodeOp' = [op |-> "removeAllNodes", arg |-> ThisHost, before |-> nodes,
                         torn |-> torn]
    /\ nodes' = <<>>
    /\ UNCHANGED nextNode

InitNodes ==
    /\ nodes = <<>>
    /\ nextNode = 1
    /\ detached = {}
    /\ nodeOp = NoNodeOp

(***************************************************************************)
(* Specifications.                                                         *)
(***************************************************************************)
InitGlobal ==
    /\ instance = Null
    /\ nObjects = 0
    /\ returned = {}
    /\ lastNew = "none"
    /\ nCalls = 0
    /\ views = <<>>
    /\ hostPermutation = NullPermutation
    /\ call = NoCall
    /\ sidebar = NoSideBar

Init == InitGlobal /\ InitBuilder /\ InitNodes

Next ==
    /\ \/ GetInstance /\ UNCHANGED nCalls
       \/ AddView /\ UNCHANGED nCalls
       \/ Resize /\ UNCHANGED nCalls
       \/ SetHostPermutation /\ UNCHANGED nCalls
       \/ Revert /\ UNCHANGED nCalls
       \/ ToggleHidden /\ UNCHANGED nCalls
    /\ UNCHANGED <<sidebar, builderVars, nodeVars>>

Spec == Init /\ [][Next]_vars

\* The views of a layout: the first views own consecutive blocks of the
\* hosts, in display order, and each may hide hosts of its own; the remaining
\* hosts belong to no view.
LayoutViews(k, owner, hid) ==
    [i \in 1..k |-> [hosts  |-> {h \in LayoutHosts : owner[h] = i},
                     hidden |-> {h \in hid : owner[h] = i}]]

LayoutOwners(k) ==
    {owner \in [LayoutHosts -> 0..k] :
        \A h \in LayoutHosts \ {MaxLayoutHosts} :
            \/ owner[h + 1] = 0
            \/ (owner[h] # 0 /\ owner[h] <= owner[h + 1])}

\* A coordinator holding a host permutation and up to MaxViews views
InitLayout ==
    /\ instance = 1
    /\ nObjects = 1
    /\ returned = {1}
    /\ lastNew = "ok"
    /\ nCalls = 0
    /\ \E k \in 0..MaxViews :
          \E owner \in LayoutOwners(k), hid \in SUBSET LayoutHosts :
             /\ \A h \in hid : owner[h] # 0
             /\ views = LayoutViews(k, owner, hid)
    /\ \E n \in 0..MaxLayoutHosts :
          hostPermutation \in {NullPermutation, Permutation(n)}
    /\ call = NoCall
    /\ sidebar = NoSideBar

NextLayout == Resize /\ UNCHANGED <<nCalls, sidebar, builderVars, nodeVars>>

InitResize == InitLayout /\ InitBuilder /\ InitNodes

SpecResize == InitResize /\ [][NextLayout]_vars

SingletonNext ==
    /\ nCalls < MaxCalls
    /\ nCalls' = nCalls + 1
    /\ (NewGlobal \/ GetInstance)
    /\ UNCHANGED <<sidebar, builderVars, nodeVars>>

SpecSingleton == Init /\ [][SingletonNext]_vars

\* The views of a sidebar drawing: two views over the same hosts, the first
\* hiding hosts a..b and the second hiding hosts 1..c
SideBarViews(a, b, c) ==
    <<[hosts |-> SideHosts, hidden |-> a..b], [hosts |-> SideHosts, hidden |-> 1..c]>>

InitSideBar ==
    /\ instance = 1
    /\ nObjects = 1
    /\ returned = {1}
    /\ lastNew = "ok"
    /\ nCalls = 0
    /\ \E a \in 1..(MaxSideHosts + 1), b \in 0..MaxSideHosts, c \in 0..MaxSideHosts :
          /\ a <= b + 1
          /\ views = SideBarViews(a, b, c)
    /\ hostPermutation \in {NullPermutation, Permutation(MaxSideHosts)}
    /\ call = NoCall
    /\ sidebar = NoSideBar

NextSideBar == DrawSideBar /\ UNCHANGED <<builderVars, nodeVars>>

InitDrawing == InitSideBar /\ InitBuilder /\ InitNodes

SpecSideBar == InitDrawing /\ [][NextSideBar]_vars

NextColors ==
    /\ \/ NewHost
       \/ RemoveHost
    /\ UNCHANGED <<globalVars, nodeVars>>

SpecColors == Init /\ [][NextColors]_vars

NextNodes ==
    /\ \/ AddNode
       \/ RemoveNode
       \/ RemoveAllNodes
    /\ UNCHANGED <<globalVars, builderVars>>

SpecNodes == Init /\ [][NextNodes]_vars

(***************************************************************************)
(* Properties of the coordinator.                                          *)
(***************************************************************************)
\* visibleHosts as resize computes it in the current state
visibleHostsNow ==
    Cardinality(hostPermutation.hosts) - Len(getHiddenHosts(views))

\* the hosts of view i that no view hides
Unhidden(i) == {h \in views[i].hosts : h \notin Range(getHiddenHosts(views))}

Resized == call.op = "resize" /\ ~call.threw

\* C1: at most one Global is ever constructed, whether directly or through
\* getInstance: a construction after the first one fails, and getInstance
\* always returns the same instance.
C1_AtMostOneGlobal == nObjects <= 1 /\ Cardinality(returned) <= 1

\* C2: every resize applies a finite, non-negative width to the graph
\* container and hands a finite, non-negative width to every view.  Stated
\* for the calls with at least one view in a window that leaves room in the
\* middle.
C2_WidthsFiniteNonNegative ==
    (Resized /\ Len(views) >= 1 /\ call.avail >= 0) =>
        /\ call.middleWidth >= 0
        /\ \A i \in 1..Len(views) :
              IsFinite(call.widths[i]) /\ ~call.widths[i].neg

\* C3: resize with exactly one visible host and at least one view returns a
\* margin of 0, uses the applied middleWidth as widthPerHost, and gives the
\* view that shows the visible host exactly that width.
C3_SingleHostFillsMiddle ==
    (Resized /\ Len(views) >= 1 /\ visibleHostsNow = 1) =>
        /\ call.hostMargin = NumOfInt(0)
        /\ call.widthPerHost = NumOfInt(call.middleWidth)
        /\ \A i \in 1..Len(views) :
              Cardinality(Unhidden(i)) = 1 =>
                  call.widths[i] = NumOfInt(call.middleWidth)

\* a single view showing the single visible host in a window narrower than
\* one host square: the margin divisor is zero
C3_Witness ==
    /\ Resized /\ Len(views) = 1 /\ visibleHostsNow = 1
    /\ Cardinality(Unhidden(1)) = 1
    /\ call.avail < HOST_SQUARE_SIZE
    /\ call.widths[1] = NumOfInt(HOST_SQUARE_SIZE)

\* C4: addView completes without error in every state of the coordinator,
\* having run a resize pass, and appends the view to the view list.
C4_AddViewCompletes ==
    [][AddView => (/\ ~call'.threw
                   /\ call'.op = "addView"
                   /\ \E view \in Views : views' = Append(views, view))]_vars

\* C8: getHiddenHosts holds a host exactly when some view of the current
\* view list hides it, and holds it once.
C8_HiddenHostsIsUnion ==
    LET hiddenHosts == getHiddenHosts(views)
    IN  /\ \A h \in Hosts :
              h \in Range(hiddenHosts) <=>
                  \E i \in 1..Len(views) : h \in views[i].hidden
        /\ Len(hiddenHosts) = Cardinality(Range(hiddenHosts))

\* two views hide the same host, and one of them hides a host the other shows
C8_Witness ==
    /\ Len(views) = 2
    /\ views[1].hidden \cap views[2].hidden # {}
    /\ views[1].hidden # views[2].hidden

\* exact arithmetic on the numbers resize produced
ExactMulInt(n, x) == Fin((n < 0) # x.neg, BigMulSmall(x.mag, Abs(n)))

RECURSIVE ExactSum(_)
ExactSum(xs) ==
    IF xs = <<>> THEN NumOfInt(0) ELSE ExactAdd(Head(xs), ExactSum(Tail(xs)))

\* |x - y| <= tol
Within(x, y, tol) == BigCmp(ExactAdd(x, NumNeg(y)).mag, tol) <= 0

\* 2^-40 pixel: far above one rounding step of a width, far below a pixel
RoundingTolerance == [i \in 1..NumLimbs |-> IF i = FracLimbs - 1 THEN 1 ELSE 0]

\* the margin drawAll puts to the right of every view but the last
marginRight(hostMargin) == ExactMulInt(2, hostMargin)

\* the widths of all views and the gaps drawAll leaves between them
LayoutTotal ==
    ExactAdd(ExactSum(call.widths),
             ExactMulInt(Len(views) - 1, marginRight(call.hostMargin)))

\* visibleHosts * HOST_SQUARE_SIZE + hostMargin * (visibleHosts + viewCount - 2)
MarginFormula ==
    ExactAdd(NumOfInt(visibleHostsNow * HOST_SQUARE_SIZE),
             ExactMulInt(visibleHostsNow + Len(views) - 2, call.hostMargin))

\* at least one view and two visible hosts, every hidden host in the
\* permutation, and the views showing the permutation's visible hosts, each
\* in exactly one view
C9_Pre ==
    /\ Resized /\ Len(views) >= 1 /\ visibleHostsNow >= 2
    /\ Range(getHiddenHosts(views)) \subseteq hostPermutation.hosts
    /\ \A i \in 1..Len(views) : Unhidden(i) \subseteq hostPermutation.hosts
    /\ \A h \in hostPermutation.hosts \ Range(getHiddenHosts(views)) :
          Cardinality({i \in 1..Len(views) : h \in views[i].hosts}) = 1

ClampFired == call.middleWidth # call.avail

C9_WitnessClamp ==
    /\ C9_Pre /\ ClampFired /\ visibleHostsNow >= 3
    /\ call.middleWidth > call.avail

(***************************************************************************)
(* Properties of the hidden-hosts section.                                 *)
(***************************************************************************)
SideBarDrawn == call.op = "drawSideBar" /\ ~call.threw

\* C7: after drawSideBar with N >= 1 hidden hosts, square i (from 0, in the
\* order of getHiddenHosts) is at x = 30 * (i mod 8), y = 30 * floor(i / 8);
\* the squares occupy ceil(N / 8) rows and pairwise distinct cells, and lie
\* within the section's width of 240 and height of ceil(N / 8) * 30 - 5.
\* With N = 0 the section is hidden and nothing is drawn.
C7_SideBarGrid ==
    SideBarDrawn =>
        LET hh == getHiddenHosts(views)
            n  == Len(hh)
            cells == sidebar.cells
        IN  IF n = 0
            THEN ~sidebar.shown /\ cells = <<>>
            ELSE /\ sidebar.shown
                 /\ Len(cells) = n
                 /\ \A i \in 1..n :
                       /\ cells[i].host = hh[i]
                       /\ cells[i].x = 30 * ((i - 1) % 8)
                       /\ cells[i].y = 30 * ((i - 1) \div 8)
                       /\ cells[i].x + HOST_SQUARE_SIZE <= sidebar.width
                       /\ cells[i].y + HOST_SQUARE_SIZE <= sidebar.height
                 /\ Cardinality({cells[i].y : i \in 1..n}) = CeilDiv(n, 8)
                 /\ \A i, j \in 1..n :
                       i # j => <<cells[i].x, cells[i].y>> # <<cells[j].x, cells[j].y>>
                 /\ sidebar.width = 240
                 /\ sidebar.height = CeilDiv(n, 8) * 30 - 5

\* A drawing of three rows whose hidden hosts come from two overlapping views
C7_Witness ==
    /\ SideBarDrawn
    /\ Len(sidebar.cells) = 2 * hostsPerLine + 1
    /\ views[1].hidden \cap views[2].hidden # {}
    /\ ~(views[1].hidden \subseteq views[2].hidden)

(***************************************************************************)
(* Properties of the colour stack.                                         *)
(***************************************************************************)
\* The colours held by live hosts, in host order
RECURSIVE HeldColors(_)
HeldColors(hs) ==
    IF hs = <<>> THEN <<>>
    ELSE IF hs[1].color = NoColor THEN HeldColors(Tail(hs))
         ELSE <<hs[1].color>> \o HeldColors(Tail(hs))

NoDuplicates(s) == \A i, j \in 1..Len(s) : i # j => s[i] # s[j]

\* C5: the nine palette colours are pairwise distinct, and at every moment
\* each of them is either on the stack or held by exactly one live host,
\* never both and never by two hosts.
C5_ColorsPartitioned ==
    /\ NoDuplicates(Palette)
    /\ NoDuplicates(colors \o HeldColors(liveHosts))
    /\ Range(colors \o HeldColors(liveHosts)) = Range(Palette)

\* Colours have been returned out of order and handed out again
C5_Witness ==
    /\ nRemoved >= 2
    /\ Len(HeldColors(liveHosts)) >= 3
    /\ colors # SubSeq(Palette, 1, Len(colors))

\* C6: the add button is disabled exactly when the stack is empty, and a
\* creation on the empty stack pops nothing, leaves the stack empty and the
\* button disabled, and yields a host without a colour.
C6_AddDisabledIffExhausted ==
    /\ [](addDisabled <=> colors = <<>>)
    /\ [][(NewHost /\ colors = <<>>) =>
             /\ colors' = <<>>
             /\ addDisabled'
             /\ liveHosts'[Len(liveHosts')].color = NoColor
             /\ HeldColors(liveHosts') = HeldColors(liveHosts)]_vars

\* The tenth creation has happened on the exhausted stack
C6_Witness ==
    /\ Len(liveHosts) = PaletteSize + 1
    /\ liveHosts[PaletteSize + 1].color = NoColor
    /\ Len(HeldColors(liveHosts)) = PaletteSize
    /\ colors = <<>>
    /\ addDisabled

(***************************************************************************)
(* Properties of the nodes of a host.                                      *)
(***************************************************************************)
\* C10: removeNode(node) leaves the host's nodes without node and with the
\* others in their order; removeAllNodes tears down each node exactly once
\* and leaves the host with no nodes.
C10_RemoveNodeRemoves ==
    /\ nodeOp.op = "removeNode" =>
          /\ nodeOp.arg \notin Range(nodes)
          /\ nodes = SelectSeq(nodeOp.before, LAMBDA n : n # nodeOp.arg)
    /\ nodeOp.op = "removeAllNodes" =>
          /\ nodeOp.torn = nodeOp.before
          /\ nodes = <<>>

=============================================================================
